---------------------------- MODULE Spec2Model ----------------------------
(***************************************************************************)
(* State-machine model of ack-api-extractor: the main loop over the        *)
(* requested services (main), the operation aggregator                     *)
(* (ExtractDetailedOperationsFromService, processOperation), the source    *)
(* scanner (findOperationInController), the classifier                     *)
(* (ClassifyOperations, classifyInBatches, parseClassificationResponse,    *)
(* ApplyClassification, CountControlPlaneOperations) and the policy        *)
(* synthesizer (GenerateSinglePolicy and its helpers).                     *)
(*                                                                         *)
(* Go strings are modelled as sequences of one-character strings, so that  *)
(* strings.Split, strings.ToLower and fmt.Sprintf act on them as the code  *)
(* does; "" is the empty sequence << >>.  A Go map is modelled as the set  *)
(* of its entries, and ranging over it visits the entries in an order the  *)
(* model does not fix.                                                     *)
(***************************************************************************)
EXTENDS Integers, Sequences, FiniteSets, TLC

VARIABLES
  services,              \* main: the parsed --service list
  classifyFlag,          \* main: --classify
  generatePoliciesFlag,  \* main: --generate-policies
  fs,                    \* the model store and controller tree of each service
  pc,                    \* position of the run
  idx,                   \* main: 1-based position of the range loop over services
  totalOperations,       \* main
  successfulServices,    \* main
  opsFiles,              \* output directory: <service>-operations.json documents
  policyFiles,           \* output directory: <service>-policy.json documents
  attempted,             \* history: services for which extraction was called, in order
  documented,            \* history: services whose operations document was written, in order
  policyFailures,        \* history: services whose policy generation failed, in order
  operations,            \* Extract...: operations
  unsupportedOperations, \* Extract...: unsupportedOperations
  operationNames,        \* Extract...: operationNames (keys mapped to true)
  supportedCount,        \* Extract...: supportedCount
  scanCalls,             \* history: names handed to findOperationInController
  clsNames,              \* classifyInBatches: operationNames
  batchSize,             \* classifyInBatches: batchSize
  clsI,                  \* classifyInBatches: i (0-based offset of the next batch)
  allControlPlane,       \* classifyInBatches: allControlPlane
  allDataPlane,          \* classifyInBatches: allDataPlane
  classification,        \* what ClassifyOperations returned to the last call
  oracleCalls,           \* history: the batches submitted to invokeInlineAgent
  batchResults,          \* history: the results parsed from the replies, in order
  oracleReplies,         \* history: what invokeInlineAgent returned, in order
  serviceOps,            \* main: serviceOps of the current service, or NoResult
  policy                 \* main: what GenerateSinglePolicy returned last

vars == << services, classifyFlag, generatePoliciesFlag, fs, pc, idx,
           totalOperations, successfulServices, opsFiles, policyFiles,
           attempted, documented, policyFailures, operations,
           unsupportedOperations,
           operationNames, supportedCount, scanCalls, clsNames, batchSize, clsI,
           allControlPlane, allDataPlane, classification, oracleCalls,
           batchResults, oracleReplies, serviceOps, policy >>

-----------------------------------------------------------------------------
(* Bounds of the model *)

\* longest operation reference list of a service shape
MaxRefs == 2

\* longest --service list
MaxServices == 2

\* most full batches of a classification
MaxBatches == 2

\* the number of entries below the pkg directory of a controller
MaxEntries == 2

-----------------------------------------------------------------------------
(* Sequences *)

Range(s) == { s[k] : k \in DOMAIN s }

SeqsUpTo(S, n) == UNION { [1..k -> S] : k \in 0..n }

RECURSIVE SelectSeqBy(_, _)
\* the subsequence of s whose elements are in S
SelectSeqBy(s, S) ==
  IF s = << >> THEN << >>
  ELSE IF Head(s) \in S THEN << Head(s) >> \o SelectSeqBy(Tail(s), S)
       ELSE SelectSeqBy(Tail(s), S)

-----------------------------------------------------------------------------
(* Strings *)

RECURSIVE Split(_, _)
\* strings.Split(s, sep) for a one-character separator: the parts between
\* the separators, in order; n separators give n+1 parts.
Split(s, sep) ==
  IF \A k \in DOMAIN s : s[k] # sep THEN << s >>
  ELSE LET p == CHOOSE k \in DOMAIN s :
                   s[k] = sep /\ \A j \in 1..(k-1) : s[j] # sep
       IN  << SubSeq(s, 1, p - 1) >> \o Split(SubSeq(s, p + 1, Len(s)), sep)

\* extractOperationName returning the last part of any reference with a '#'
extractOperationNameLast(target) ==
  LET parts == Split(target, "#")
  IN  IF Len(parts) >= 2 THEN parts[Len(parts)] ELSE << >>

\* extractOperationName: the part after '#' when there are exactly two parts
extractOperationName(target) ==
  LET parts == Split(target, "#")
  IN  IF Len(parts) = 2 THEN parts[2] ELSE << >>

LowerChar(c) ==
  CASE c = "D" -> "d"
    [] c = "B" -> "b"
    [] c = "E" -> "e"
    [] OTHER   -> c

\* strings.ToLower
ToLower(s) == [ k \in DOMAIN s |-> LowerChar(s[k]) ]

-----------------------------------------------------------------------------
(* Types *)

\* Operation
Operation(name, type, file, line) ==
  [ Name |-> name, Type |-> type, File |-> file, Line |-> line ]

Unclassified == ""

\* ServiceOperations, with valid = FALSE for the nil pointer
ServiceOperations(name, total, supported, cp, scp, ops) ==
  [ valid |-> TRUE, ServiceName |-> name, TotalOperations |-> total,
    SupportedOperations |-> supported, ControlPlaneOps |-> cp,
    SupportedControlPlaneOps |-> scp, Operations |-> ops ]

NoResult ==
  [ valid |-> FALSE, ServiceName |-> << >>, TotalOperations |-> 0,
    SupportedOperations |-> 0, ControlPlaneOps |-> 0,
    SupportedControlPlaneOps |-> 0, Operations |-> << >> ]

\* a path of the output directory that holds no file
NoFile == [ written |-> FALSE, doc |-> NoResult ]

NoPolicyFile == [ written |-> FALSE, doc |-> [ Version |-> "", Statement |-> << >> ] ]

\* an operation carries a source location
HasLocation(op) == op.File # << >> /\ op.Line > 0

-----------------------------------------------------------------------------
(* Source Scanner: extract.go *)

\* filepath.Join(a, b)
Join(a, b) == a \o << "/" >> \o b

\* filepath.Rel(base, path) for a path below base
Rel(base, path) == SubSeq(path, Len(base) + 2, Len(path))

\* strings.HasSuffix(path, ".go")
HasGoSuffix(path) == path # << >> /\ path[Len(path)] = ".go"

\* the three call-site patterns, in the order of the patterns slice
Patterns == << "RecordAPICall", "rm.sdkapi", "client" >>

\* pattern.MatchString(line) for the pattern built from operationName
MatchString(pattern, operationName, line) ==
  line.call = pattern /\ line.name = operationName

\* bufio.MaxScanTokenSize: the longest line scanner.Scan returns
MaxScanTokenSize == 65536

\* scanner.Scan() at a line: false, with the error left in the scanner, when
\* the line does not fit the buffer of MaxScanTokenSize bytes
ScanStops(line) == line.bytes >= MaxScanTokenSize

RECURSIVE ScanLines(_, _, _)
\* the scanner.Scan loop of one file: the 1-based number of the first line
\* matching any pattern, 0 when no line matches before Scan returns false
ScanLines(lines, lineNum, operationName) ==
  IF lineNum > Len(lines) THEN 0
  ELSE IF ScanStops(lines[lineNum]) THEN 0
  ELSE IF \E k \in DOMAIN Patterns :
             MatchString(Patterns[k], operationName, lines[lineNum])
       THEN lineNum
       ELSE ScanLines(lines, lineNum + 1, operationName)

RECURSIVE WalkFrom(_, _, _, _)
\* filepath.Walk(pkgPath, fn) from entry k on: [err, foundFile, foundLine]
WalkFrom(entries, k, controllerPath, operationName) ==
  IF k > Len(entries) THEN [ err |-> FALSE, foundFile |-> << >>, foundLine |-> 0 ]
  ELSE LET e    == entries[k]
           path == Join(controllerPath, e.rel)
           hit  == ScanLines(e.lines, 1, operationName)
       IN  IF e.kind = "walkerr"
           THEN [ err |-> TRUE, foundFile |-> << >>, foundLine |-> 0 ]
           ELSE IF ~HasGoSuffix(path) \/ e.kind = "unopenable" \/ hit = 0
           THEN WalkFrom(entries, k + 1, controllerPath, operationName)
           ELSE [ err |-> FALSE, foundFile |-> Rel(controllerPath, path),
                  foundLine |-> hit ]

\* findControllerForService: the controller path, "" when os.Stat fails
findControllerForService(serviceName) ==
  IF fs[serviceName].controller.exists
  THEN << "..", "/" >> \o serviceName \o << "-controller" >>
  ELSE << >>

\* findOperationInController: << file, line >>
findOperationInController(serviceName, operationName) ==
  LET controllerPath == findControllerForService(serviceName)
      ctrl == fs[serviceName].controller
      w    == WalkFrom(ctrl.walk, 1, controllerPath, operationName)
  IN  IF controllerPath = << >> THEN << << >>, 0 >>
      ELSE IF ~ctrl.hasPkg THEN << << >>, 0 >>
      ELSE IF w.err THEN << << >>, 0 >>
      ELSE << w.foundFile, w.foundLine >>

\* getModelNameFromController: [err, name]
getModelNameFromController(serviceName) ==
  LET ctrl == fs[serviceName].controller
  IN  IF findControllerForService(serviceName) = << >>
      THEN [ err |-> TRUE, name |-> << >> ]
      ELSE IF ~ctrl.generator.readable
      THEN [ err |-> TRUE, name |-> << >> ]
      ELSE IF ctrl.generator.model_name = << >>
      THEN [ err |-> TRUE, name |-> << >> ]
      ELSE [ err |-> FALSE, name |-> ctrl.generator.model_name ]

-----------------------------------------------------------------------------
(* Operation Aggregator, pure part: operations.go *)

\* The locals of ExtractDetailedOperationsFromService that processOperation
\* reads and updates through its map and pointer parameters.
Frame == [ operationNames        |-> operationNames,
           operations            |-> operations,
           unsupportedOperations |-> unsupportedOperations,
           supportedCount        |-> supportedCount,
           scanCalls             |-> scanCalls ]

\* processOperation taking an operation as supported when line >= 0
processOperationAnyLine(operationName, serviceName, f) ==
  IF operationName # << >> /\ operationName \notin f.operationNames
  THEN LET loc       == findOperationInController(serviceName, operationName)
           file      == loc[1]
           line      == loc[2]
           operation == Operation(operationName, Unclassified, file, line)
           g == [ f EXCEPT !.operationNames = @ \cup { operationName },
                           !.scanCalls = Append(@, operationName) ]
       IN  IF line >= 0
           THEN [ g EXCEPT
                    !.operations = Append(@, [ operation EXCEPT !.Type = "control_plane" ]),
                    !.supportedCount = @ + 1 ]
           ELSE [ g EXCEPT !.unsupportedOperations = Append(@, operation) ]
  ELSE f

\* processOperation counting every new operation as supported
processOperationCountsAll(operationName, serviceName, f) ==
  IF operationName # << >> /\ operationName \notin f.operationNames
  THEN LET loc       == findOperationInController(serviceName, operationName)
           file      == loc[1]
           line      == loc[2]
           operation == Operation(operationName, Unclassified, file, line)
           g == [ f EXCEPT !.operationNames = @ \cup { operationName },
                           !.scanCalls = Append(@, operationName),
                           !.supportedCount = @ + 1 ]
       IN  IF file # << >> /\ line > 0
           THEN [ g EXCEPT
                    !.operations = Append(@, [ operation EXCEPT !.Type = "control_plane" ]) ]
           ELSE [ g EXCEPT !.unsupportedOperations = Append(@, operation) ]
  ELSE f

\* processOperation without the test of operationNames
processOperationNoDedup(operationName, serviceName, f) ==
  IF operationName # << >>
  THEN LET loc       == findOperationInController(serviceName, operationName)
           file      == loc[1]
           line      == loc[2]
           operation == Operation(operationName, Unclassified, file, line)
           g == [ f EXCEPT !.operationNames = @ \cup { operationName },
                           !.scanCalls = Append(@, operationName) ]
       IN  IF file # << >> /\ line > 0
           THEN [ g EXCEPT
                    !.operations = Append(@, [ operation EXCEPT !.Type = "control_plane" ]),
                    !.supportedCount = @ + 1 ]
           ELSE [ g EXCEPT !.unsupportedOperations = Append(@, operation) ]
  ELSE f

\* processOperation leaving the type of a supported operation empty
processOperationUntyped(operationName, serviceName, f) ==
  IF operationName # << >> /\ operationName \notin f.operationNames
  THEN LET loc       == findOperationInController(serviceName, operationName)
           file      == loc[1]
           line      == loc[2]
           operation == Operation(operationName, Unclassified, file, line)
           g == [ f EXCEPT !.operationNames = @ \cup { operationName },
                           !.scanCalls = Append(@, operationName) ]
       IN  IF file # << >> /\ line > 0
           THEN [ g EXCEPT
                    !.operations = Append(@, operation),
                    !.supportedCount = @ + 1 ]
           ELSE [ g EXCEPT !.unsupportedOperations = Append(@, operation) ]
  ELSE f

\* processOperation: the frame after the call
processOperation(operationName, serviceName, f) ==
  IF operationName # << >> /\ operationName \notin f.operationNames
  THEN LET loc       == findOperationInController(serviceName, operationName)
           file      == loc[1]
           line      == loc[2]
           operation == Operation(operationName, Unclassified, file, line)
           g == [ f EXCEPT !.operationNames = @ \cup { operationName },
                           !.scanCalls = Append(@, operationName) ]
       IN  IF file # << >> /\ line > 0
           THEN [ g EXCEPT
                    !.operations = Append(@, [ operation EXCEPT !.Type = "control_plane" ]),
                    !.supportedCount = @ + 1 ]
           ELSE [ g EXCEPT !.unsupportedOperations = Append(@, operation) ]
  ELSE f

RECURSIVE ProcessTargets(_, _, _)
\* the inner loop over shape.Operations (operations.go 61-64)
ProcessTargets(targets, serviceName, f) ==
  IF targets = << >> THEN f
  ELSE ProcessTargets(Tail(targets), serviceName,
         processOperation(extractOperationName(Head(targets)), serviceName, f))

-----------------------------------------------------------------------------
(* Classifier, pure part *)

\* Batch taking one name more than size
BatchInclusive(names, i, size) ==
  LET end == IF i + size + 1 > Len(names) THEN Len(names) ELSE i + size + 1
  IN  SubSeq(names, i + 1, end)

\* the batch operationNames[i:end] of classifyInBatches (i is 0-based)
Batch(names, i, size) ==
  LET end == IF i + size > Len(names) THEN Len(names) ELSE i + size
  IN  SubSeq(names, i + 1, end)

\* names of a list of operations, in order (ClassifyOperations 145-148)
NamesOf(ops) == [ k \in DOMAIN ops |-> ops[k].Name ]

\* strings.Index(response, "{"): 1-based position of the first "{", 0 if none
FirstOpen(response) ==
  IF \E k \in DOMAIN response : response[k].key = "{"
  THEN CHOOSE k \in DOMAIN response :
         response[k].key = "{" /\ \A j \in 1..(k-1) : response[j].key # "{"
  ELSE 0

\* strings.LastIndex(response, "}"): 1-based position of the last "}", 0 if none
LastClose(response) ==
  IF \E k \in DOMAIN response : response[k].key = "}"
  THEN CHOOSE k \in DOMAIN response :
         response[k].key = "}" /\ \A j \in (k+1)..Len(response) : response[j].key # "}"
  ELSE 0

\* A reply is a sequence of tokens [key, val]: an opening brace (key "{"), a
\* closing brace (key "}"), text without braces (key "text"), or a member
\* "key": [val...] of an object.
Tok(key, val) == [ key |-> key, val |-> val, list |-> TRUE ]

\* a member whose value is not a list of strings
Mistyped(key) == [ key |-> key, val |-> << >>, list |-> FALSE ]

OpenBrace == Tok("{", << >>)

CloseBrace == Tok("}", << >>)

Text == Tok("text", << >>)

IsMember(tok) == tok.key \notin { "{", "}", "text" }

\* json.Unmarshal of a span into a ClassificationResult.  The span is one
\* well-formed object when it is "{", members, "}"; the members named
\* control_plane and data_plane fill the two lists (the last one of a name
\* wins) and must be lists of strings, other members are ignored.
Unmarshal(span) ==
  LET inner == SubSeq(span, 2, Len(span) - 1)
      wellFormed == /\ Len(span) >= 2
                    /\ span[1].key = "{" /\ span[Len(span)].key = "}"
                    /\ \A k \in DOMAIN inner : IsMember(inner[k])
                    /\ \A k \in DOMAIN inner :
                         inner[k].key \in { "control_plane", "data_plane" }
                           => inner[k].list
      Field(key) ==
        IF \E k \in DOMAIN inner : inner[k].key = key
        THEN inner[CHOOSE k \in DOMAIN inner :
                     /\ inner[k].key = key
                     /\ \A j \in (k+1)..Len(inner) : inner[j].key # key].val
        ELSE << >>
  IN  IF wellFormed
      THEN [ err |-> FALSE, ControlPlane |-> Field("control_plane"),
             DataPlane |-> Field("data_plane") ]
      ELSE [ err |-> TRUE, ControlPlane |-> << >>, DataPlane |-> << >> ]

\* parseClassificationResponse taking the span up to the first "}"
parseFirstObject(response) ==
  LET start == FirstOpen(response)
      end   == IF \E k \in DOMAIN response : response[k].key = "}"
               THEN CHOOSE k \in DOMAIN response :
                      /\ response[k].key = "}"
                      /\ \A j \in 1..(k-1) : response[j].key # "}"
               ELSE 0
      fail  == [ err |-> TRUE, ControlPlane |-> << >>, DataPlane |-> << >> ]
  IN  IF start = 0 THEN fail
      ELSE IF end = 0 \/ end <= start THEN fail
      ELSE Unmarshal(SubSeq(response, start, end))

\* parseClassificationResponse: [err, ControlPlane, DataPlane]
parseClassificationResponse(response) ==
  LET start == FirstOpen(response)
      end   == LastClose(response)
      fail  == [ err |-> TRUE, ControlPlane |-> << >>, DataPlane |-> << >> ]
  IN  IF start = 0 THEN fail
      ELSE IF end = 0 \/ end <= start THEN fail
      ELSE Unmarshal(SubSeq(response, start, end))

\* ClassifiedType leaving the type of a name in neither list as it is
ClassifiedTypeNoDefault(name, cls) ==
  IF name \in Range(cls.ControlPlane) THEN "control_plane"
  ELSE IF name \in Range(cls.DataPlane) THEN "data_plane"
  ELSE Unclassified

\* ClassifiedType looking at the data-plane list first
ClassifiedTypeDataFirst(name, cls) ==
  IF name \in Range(cls.DataPlane) THEN "data_plane"
  ELSE IF name \in Range(cls.ControlPlane) THEN "control_plane"
  ELSE "data_plane"

\* the type ApplyClassification gives to one operation
ClassifiedType(name, cls) ==
  IF name \in Range(cls.ControlPlane) THEN "control_plane"
  ELSE IF name \in Range(cls.DataPlane) THEN "data_plane"
  ELSE "data_plane"

\* ApplyClassification
ApplyClassification(ops, cls) ==
  [ k \in DOMAIN ops |-> [ ops[k] EXCEPT !.Type = ClassifiedType(ops[k].Name, cls) ] ]

\* the failure branch of ExtractDetailedOperationsFromService (88-91)
MarkUnknown(ops) == [ k \in DOMAIN ops |-> [ ops[k] EXCEPT !.Type = "Unknown" ] ]

RECURSIVE CountFrom(_, _, _)
\* the loop of CountControlPlaneOperations from the operations ops on, with
\* the counters at controlPlane and supportedControlPlane
CountFrom(ops, controlPlane, supportedControlPlane) ==
  IF ops = << >> THEN << controlPlane, supportedControlPlane >>
  ELSE LET op == Head(ops)
       IN  IF op.Type = "control_plane"
           THEN IF op.File # << >> /\ op.Line > 0
                THEN CountFrom(Tail(ops), controlPlane + 1, supportedControlPlane + 1)
                ELSE CountFrom(Tail(ops), controlPlane + 1, supportedControlPlane)
           ELSE CountFrom(Tail(ops), controlPlane, supportedControlPlane)

\* CountControlPlaneOperations counting every control-plane operation as
\* supported
CountWithoutLocation(ops) ==
  << CountFrom(ops, 0, 0)[1], CountFrom(ops, 0, 0)[1] >>

\* CountControlPlaneOperations: << controlPlane, supportedControlPlane >>
CountControlPlaneOperations(ops) == CountFrom(ops, 0, 0)

-----------------------------------------------------------------------------
(* Policy Synthesizer: policy_generator.go *)

\* mapOperationToIAMAction without strings.ToLower
mapOperationToIAMActionRaw(serviceName, operationName) ==
  LET m         == getModelNameFromController(serviceName)
      modelName == IF m.err THEN serviceName ELSE m.name
  IN  modelName \o << ":" >> \o operationName

\* mapOperationToIAMAction: "<lower-cased model name>:<operation name>"
mapOperationToIAMAction(serviceName, operationName) ==
  LET m         == getModelNameFromController(serviceName)
      modelName == IF m.err THEN serviceName ELSE m.name
  IN  ToLower(modelName) \o << ":" >> \o operationName

\* generateSimpleResourcePattern
generateSimpleResourcePattern(serviceName) ==
  LET m             == getModelNameFromController(serviceName)
      modelName     == IF m.err THEN serviceName ELSE m.name
      serviceForARN == ToLower(modelName)
  IN  IF serviceForARN = << "s", "3" >> THEN << "*" >>
      ELSE IF serviceForARN = << "i", "a", "m" >> THEN << "arn:aws:iam::*:*" >>
      ELSE << "arn:aws:" >> \o serviceForARN \o << ":*:*:*" >>

\* createPolicy
createPolicy(actions, resource) ==
  IF Len(actions) = 0
  THEN [ Version |-> "2012-10-17", Statement |-> << >> ]
  ELSE [ Version |-> "2012-10-17",
         Statement |-> << [ Effect |-> "Allow", Action |-> actions,
                            Resource |-> resource ] >> ]

\* SupportedActions without the test of File and Line
SupportedActionsAll(serviceName, ops) ==
  [ k \in DOMAIN ops |-> mapOperationToIAMAction(serviceName, ops[k].Name) ]

\* the loop of GenerateSinglePolicy (13-18): one action per operation with a
\* source location, in input order
SupportedActions(serviceName, ops) ==
  LET sup == SelectSeqBy(ops, { op \in Range(ops) : op.File # << >> /\ op.Line > 0 })
  IN  [ k \in DOMAIN sup |-> mapOperationToIAMAction(serviceName, sup[k].Name) ]

NoPolicy == [ Version |-> "", Statement |-> << >> ]

\* main before GenerateSinglePolicy is called for the current service
NotGenerated ==
  [ called |-> FALSE, err |-> FALSE, policy |-> NoPolicy, validateErr |-> FALSE,
    writePolicyErr |-> FALSE ]

\* GenerateSinglePolicy: [err, policy], policy = NoPolicy for the nil pointer
GenerateSinglePolicy(serviceName, ops) ==
  LET supportedActions == SupportedActions(serviceName, ops)
  IN  IF Len(supportedActions) = 0
      THEN [ called |-> TRUE, err |-> TRUE, policy |-> NoPolicy ]
      ELSE [ called |-> TRUE, err |-> FALSE,
             policy |-> createPolicy(supportedActions,
                                     generateSimpleResourcePattern(serviceName)) ]

\* ValidatePolicyJSON: TRUE when it returns an error
ValidatePolicyJSON(p) ==
  \/ p.Version = ""
  \/ Len(p.Statement) = 0
  \/ \E k \in DOMAIN p.Statement :
        \/ p.Statement[k].Effect \notin { "Allow", "Deny" }
        \/ Len(p.Statement[k].Action) = 0

-----------------------------------------------------------------------------
(* The inputs: service identifiers, API models and controller trees *)

\* const maxOperationsPerBatch
maxOperationsPerBatch == 100

sA == << "a" >>

sE == << "E" >>

ServiceIds == { sA, sE }

nF == << "F" >>

nB == << "B" >>

nG == << "G" >>

\* operation references: two well-formed ones, one without '#', one with two
Targets == { << "n", "#", "F" >>, << "n", "#", "B" >>,
             << "F" >>, << "n", "#", "F", "#", "B" >> }

RefLists == SeqsUpTo(Targets, MaxRefs)

\* an entry of model.Shapes: the key and the ServiceShape it maps to
Shape(name, type, ops) == [ name |-> name, Type |-> type, Operations |-> ops ]

\* names of the shapes of type "operation" a model may hold: two well-formed
\* ones and one without '#'
OperationKeys == { << "n", "#", "F" >>, << "n", "#", "G" >>, << "G" >> }

\* the shape mappings of the models: a service shape with any reference
\* list, possibly a second service shape, a structure shape, and any set of
\* operation shapes
ShapeMaps ==
  { { Shape(<< "n", "#", "S" >>, "service", refs),
      Shape(<< "n", "#", "X" >>, "structure", << >>) }
    \cup second
    \cup { Shape(k, "operation", << >>) : k \in keys } :
      refs \in RefLists,
      second \in { {}, { Shape(<< "n", "#", "T" >>, "service",
                               << << "n", "#", "G" >> >>) } },
      keys \in SUBSET OperationKeys }

\* what findServiceModelJSONFile, os.ReadFile and json.Unmarshal make of the
\* model store: no model file, a file that does not parse, or a shape mapping
Model(status, shapes) == [ status |-> status, Shapes |-> shapes ]

Models ==
  { Model("notfound", {}), Model("unparsable", {}) }
  \cup { Model("ok", m) : m \in ShapeMaps }

\* a source line: the call site it holds, if any, and the name called
Line(call, name) == [ call |-> call, name |-> name, bytes |-> 80 ]

\* a source line of MaxScanTokenSize bytes holding the same
LongLine(call, name) ==
  [ call |-> call, name |-> name, bytes |-> MaxScanTokenSize ]

\* an entry of the walk of <controller>/pkg, in the order filepath.Walk
\* reaches it: its path below the controller root, whether it is a directory,
\* a file, a file os.Open fails on, or an entry Walk reports an error for
Entry(kind, rel, lines) == [ kind |-> kind, rel |-> rel, lines |-> lines ]

Generator(readable, name) == [ readable |-> readable, model_name |-> name ]

Controller(exists, hasPkg, walk, gen) ==
  [ exists |-> exists, hasPkg |-> hasPkg, walk |-> walk, generator |-> gen ]

NoController == Controller(FALSE, FALSE, << >>, Generator(FALSE, << >>))

PkgDir == Entry("dir", << "pkg" >>, << >>)

\* pkg/a.go calls F on its second line
WalkF ==
  << PkgDir,
     Entry("file", << "pkg", "/", "a", ".go" >>,
           << Line("none", nF), Line("client", nF) >>) >>

\* pkg/a.go calls G and cannot be opened, pkg/b.md is no Go file, pkg/c.go
\* calls B and F
WalkFB ==
  << PkgDir,
     Entry("unopenable", << "pkg", "/", "a", ".go" >>, << Line("client", nG) >>),
     Entry("file", << "pkg", "/", "b", ".md" >>, << Line("client", nB) >>),
     Entry("file", << "pkg", "/", "c", ".go" >>,
           << Line("rm.sdkapi", nB), Line("RecordAPICall", nF),
              Line("none", nG), Line("client", nF) >>) >>

\* pkg/a.go calls F, then the walk reports an error
WalkErr ==
  << PkgDir,
     Entry("file", << "pkg", "/", "a", ".go" >>, << Line("rm.sdkapi", nF) >>),
     Entry("walkerr", << "pkg", "/", "z" >>, << >>) >>

\* the lines of a file: none, none that calls, a call of F on the second
\* line, a call of B and two of F, a call of B only, and a call of F after
\* and before a line the scanner cannot hold
FileBodies ==
  { << >>,
    << Line("none", nF) >>,
    << Line("none", nF), Line("client", nF) >>,
    << Line("RecordAPICall", nB), Line("rm.sdkapi", nF), Line("client", nF) >>,
    << Line("client", nB) >>,
    << LongLine("none", nF), Line("client", nF) >>,
    << Line("rm.sdkapi", nF), LongLine("none", nF) >> }

\* the k-th entry below pkg: a Go file with any of the bodies, a Go file
\* that cannot be opened, a file that is no Go file, a directory, or an
\* error of the traversal
EntriesAt(k) ==
  LET letter == << "a", "b", "c", "d" >>[k]
      go     == << "pkg", "/", letter, ".go" >>
  IN  { Entry("file", go, b) : b \in FileBodies }
      \cup { Entry("unopenable", go, << Line("client", nF) >>),
             Entry("file", << "pkg", "/", letter, ".md" >>, << Line("client", nF) >>),
             Entry("dir", << "pkg", "/", letter >>, << >>),
             Entry("walkerr", << "pkg", "/", letter >>, << >>) }

\* the walks of a pkg directory of up to MaxEntries entries
Walks ==
  UNION { { << PkgDir >> \o w : w \in { f \in [1..n -> UNION { EntriesAt(k) : k \in 1..n }] :
                                          \A k \in 1..n : f[k] \in EntriesAt(k) } } :
          n \in 0..MaxEntries }

Controllers ==
  { NoController,
    Controller(TRUE, FALSE, << >>, Generator(FALSE, << >>)),
    Controller(TRUE, TRUE, WalkF, Generator(TRUE, << "D", "b" >>)),
    Controller(TRUE, TRUE, WalkFB, Generator(TRUE, << >>)),
    Controller(TRUE, TRUE, WalkErr, Generator(TRUE, << "s", "3" >>)) }

World(model, controller) == [ model |-> model, controller |-> controller ]

\* service "a" ranges over every model and controller
WorldsA == { World(m, c) : m \in Models, c \in Controllers }

OneRef == { Shape(<< "n", "#", "S" >>, "service", << << "n", "#", "F" >> >>) }

\* no reference list, two shapes of type "operation"
TwoOperationShapes ==
  { Shape(<< "n", "#", "S" >>, "service", << >>),
    Shape(<< "n", "#", "F" >>, "operation", << >>),
    Shape(<< "n", "#", "B" >>, "operation", << >>) }

\* two service shapes with a reference list each
TwoServiceShapes ==
  { Shape(<< "n", "#", "S" >>, "service", << << "n", "#", "F" >> >>),
    Shape(<< "n", "#", "T" >>, "service", << << "n", "#", "B" >> >>) }

\* service "E" ranges over three cases: no model, a model of one operation
\* without a controller, and the same model with a controller implementing it
WorldsE ==
  { World(Model("notfound", {}), NoController),
    World(Model("ok", OneRef), NoController),
    World(Model("ok", OneRef),
          Controller(TRUE, TRUE, WalkF, Generator(FALSE, << >>))) }

\* the cases of a service in a run over several services
WorldsRun ==
  WorldsE \cup
  { World(Model("unparsable", {}), NoController),
    World(Model("ok", { Shape(<< "n", "#", "S" >>, "service", << >>) }), NoController),
    World(Model("ok", TwoOperationShapes),
          Controller(TRUE, TRUE, WalkFB, Generator(TRUE, << >>))),
    World(Model("ok", TwoServiceShapes),
          Controller(TRUE, TRUE, WalkFB, Generator(TRUE, << >>))) }

\* the outcomes of one iteration of the loop of main: no model, no operation
\* name in the model, an operation without and with a source location
WorldsLoop ==
  WorldsE \cup
  { World(Model("ok", { Shape(<< "n", "#", "S" >>, "service", << >>) }), NoController) }

\* references with one '#' (with and without text on either side), with
\* none, the empty reference, and one with two '#'
NameTargets ==
  { << "n", "#", "F" >>, << "#", "B" >>, << "n", "#" >>, << "F" >>, << >>,
    << "n", "#", "F", "#", "B" >> }

\* names of shapes of type "operation": with one '#', with none, with two
NameKeys ==
  { << "n", "#", "B" >>, << "n", "#" >>, << "B" >>, << "n", "#", "B", "#", "F" >> }

\* the models of a service whose references and operation shape names are
\* drawn from NameTargets and NameKeys, without and with a controller
WorldsNames ==
  { World(Model("ok", { Shape(<< "n", "#", "S" >>, "service", refs) }
                        \cup { Shape(k, "operation", << >>) : k \in keys }),
          c) :
      refs \in SeqsUpTo(NameTargets, MaxRefs),
      keys \in SUBSET NameKeys,
      c \in { NoController,
              Controller(TRUE, TRUE, WalkF, Generator(TRUE, << "D", "b" >>)) } }

\* a model naming F, B and G, over every walk of the controller, and the
\* cases without a model and without a pkg directory
WorldsScan ==
  { World(Model("ok", { Shape(<< "n", "#", "S" >>, "service",
                              << << "n", "#", "F" >>, << "n", "#", "B" >>,
                                 << "n", "#", "G" >> >>) }),
          Controller(TRUE, TRUE, w, Generator(TRUE, << >>))) : w \in Walks }
  \cup { World(Model("notfound", {}), NoController),
         World(Model("ok", OneRef), Controller(TRUE, FALSE, << >>, Generator(FALSE, << >>))) }

\* the k-th of the names of a large model: five letters, all different
OpName(k) ==
  [ d \in 1..5 |-> << "F", "B", "G", "E" >>[((k \div (4 ^ (5 - d))) % 4) + 1] ]

\* a model whose service shape refers to n operations, none of them
\* implemented as there is no controller
WorldOf(n) ==
  World(Model("ok", { Shape(<< "n", "#", "S" >>, "service",
                            [ k \in 1..n |-> << "n", "#" >> \o OpName(k) ]) }),
        NoController)

\* the numbers of operations at the edges of up to MaxBatches batches: full
\* batches, one operation more, one operation less
BatchEdges ==
  { n \in 0..(MaxBatches * maxOperationsPerBatch + 1) :
      n % maxOperationsPerBatch \in { 0, 1, maxOperationsPerBatch - 1 } }

\* a service that is not requested is never read
Unread == World(Model("notfound", {}), NoController)

InitWorlds(s, requested, worlds) == IF s \in Range(requested) THEN worlds ELSE { Unread }

-----------------------------------------------------------------------------
(* The classification oracle *)

NameOrder == << nF, nB, nG >>

\* the names of S as a list
ListOf(S) == SelectSeqBy(NameOrder, S)

Member(key, names) == Tok(key, names)

\* the ways a reply object may divide a batch whose names are not all among
\* F, B and G: all control plane, all data plane, or the first name control
\* plane and the last name data plane
Divisions(batch) ==
  { << batch, << >> >>, << << >>, batch >>,
    << << batch[1] >>, << batch[Len(batch)] >> >> }

\* replies that name the batch as of one kind and the first name of the
\* whole list, whatever its batch, as of the other kind
Overlaps(batch) ==
  { << Text, OpenBrace, Member("control_plane", batch),
       Member("data_plane", << OpName(1) >>), CloseBrace, Text >>,
    << Text, OpenBrace, Member("control_plane", << OpName(1) >>),
       Member("data_plane", batch), CloseBrace, Text >> }

\* the forms of a reply whose object names cp as control plane and dp as
\* data plane: between text, alone, with a member of another name and the
\* two lists in the other order, and with a list given twice
Forms(cp, dp) ==
  { << Text, OpenBrace, Member("control_plane", cp), Member("data_plane", dp),
       CloseBrace, Text >>,
    << OpenBrace, Member("control_plane", cp), Member("data_plane", dp),
       CloseBrace >>,
    << Text, OpenBrace, Member("note", dp), Member("data_plane", dp),
       Member("control_plane", cp), CloseBrace >>,
    << OpenBrace, Member("control_plane", dp), Member("control_plane", cp),
       Member("data_plane", dp), CloseBrace, Text >> }

\* replies that hold no object for the batch: an opening brace that is never
\* closed, text between the braces, and a list that is no list
Broken(batch) ==
  { << Text, OpenBrace, Member("control_plane", batch) >>,
    << OpenBrace, Text, CloseBrace >>,
    << OpenBrace, Mistyped("control_plane"), Member("data_plane", batch),
       CloseBrace >> }

\* What invokeInlineAgent may return for a batch: an error, or a reply.  The
\* replies are: text without an object; a closing brace before the opening
\* one; two objects; an empty object; and, between text, an object naming
\* any names of the batch as control plane and any names of the batch or
\* named by `others` as data plane (for a batch of other names than F, B
\* and G: the Forms of its Divisions, its Overlaps, and the Broken replies).
Replies(batch, others) ==
  { << Text >>,
    << CloseBrace, Text, OpenBrace >>,
    << OpenBrace, Member("data_plane", batch), CloseBrace, Text,
       OpenBrace, Member("control_plane", batch), CloseBrace >>,
    << OpenBrace, CloseBrace >> }
  \cup
  IF Range(batch) \subseteq Range(NameOrder)
  THEN { << Text, OpenBrace, Member("control_plane", ListOf(cp)),
            Member("data_plane", ListOf(dp)), CloseBrace, Text >> :
           cp \in SUBSET Range(batch), dp \in SUBSET (Range(batch) \cup others) }
  ELSE Broken(batch) \cup Overlaps(batch)
       \cup UNION { Forms(d[1], d[2]) : d \in Divisions(batch) }

OracleOutcomes(batch, others) ==
  { [ err |-> TRUE, response |-> << >> ] }
  \cup { [ err |-> FALSE, response |-> r ] : r \in Replies(batch, others) }

NoClassification == [ err |-> FALSE, ControlPlane |-> << >>, DataPlane |-> << >> ]

-----------------------------------------------------------------------------
(* Initial states *)

\* the state of main before its loop and of the locals before any call
Start ==
  /\ classifyFlag \in BOOLEAN
  /\ generatePoliciesFlag \in BOOLEAN
  /\ pc = "loop"
  /\ idx = 1
  /\ totalOperations = 0
  /\ successfulServices = 0
  /\ opsFiles = [ s \in ServiceIds |-> NoFile ]
  /\ policyFiles = [ s \in ServiceIds |-> NoPolicyFile ]
  /\ attempted = << >>
  /\ documented = << >>
  /\ policyFailures = << >>
  /\ operations = << >>
  /\ unsupportedOperations = << >>
  /\ operationNames = {}
  /\ supportedCount = 0
  /\ scanCalls = << >>
  /\ clsNames = << >>
  /\ batchSize = maxOperationsPerBatch
  /\ clsI = 0
  /\ allControlPlane = << >>
  /\ allDataPlane = << >>
  /\ classification = NoClassification
  /\ oracleCalls = << >>
  /\ batchResults = << >>
  /\ oracleReplies = << >>
  /\ serviceOps = NoResult
  /\ policy = NotGenerated

\* a run for one service, over every model and controller of that service
Init ==
  /\ services \in { << s >> : s \in ServiceIds }
  /\ fs \in { [ s \in ServiceIds |-> IF s = sA THEN a ELSE e ] :
                a \in InitWorlds(sA, services, WorldsA),
                e \in InitWorlds(sE, services, WorldsE) }
  /\ Start

\* a run for a list of services, each over the cases of WorldsRun
InitRun ==
  /\ services \in SeqsUpTo(ServiceIds, MaxServices) \ { << >> }
  /\ fs \in { [ s \in ServiceIds |-> IF s = sA THEN a ELSE e ] :
                a \in InitWorlds(sA, services, WorldsRun),
                e \in InitWorlds(sE, services, WorldsRun) }
  /\ Start

\* a run for service "a" over the models of WorldsNames
InitNames ==
  /\ services = << sA >>
  /\ fs \in { [ s \in ServiceIds |-> IF s = sA THEN a ELSE Unread ] :
                a \in WorldsNames }
  /\ Start

\* a run for service "a" over the controllers of WorldsScan
InitScan ==
  /\ services = << sA >>
  /\ fs \in { [ s \in ServiceIds |-> IF s = sA THEN a ELSE Unread ] :
                a \in WorldsScan }
  /\ Start

\* ExtractDetailedOperationsFromService for service "a" at operations.go 84,
\* after the operations of a model of BatchEdges were collected: none has a
\* source location, all are in unsupportedOperations in the order of the
\* reference list
InitBatch ==
  /\ services = << sA >>
  /\ classifyFlag = TRUE
  /\ generatePoliciesFlag \in BOOLEAN
  /\ \E n \in BatchEdges :
       /\ fs = [ s \in ServiceIds |-> IF s = sA THEN WorldOf(n) ELSE Unread ]
       /\ unsupportedOperations =
            [ k \in 1..n |-> Operation(OpName(k), Unclassified, << >>, 0) ]
       /\ operationNames = { OpName(k) : k \in 1..n }
       /\ scanCalls = [ k \in 1..n |-> OpName(k) ]
  /\ pc = "classify"
  /\ idx = 1
  /\ attempted = << sA >>
  /\ operations = << >>
  /\ supportedCount = 0
  /\ totalOperations = 0
  /\ successfulServices = 0
  /\ opsFiles = [ s \in ServiceIds |-> NoFile ]
  /\ policyFiles = [ s \in ServiceIds |-> NoPolicyFile ]
  /\ documented = << >>
  /\ policyFailures = << >>
  /\ clsNames = << >>
  /\ batchSize = maxOperationsPerBatch
  /\ clsI = 0
  /\ allControlPlane = << >>
  /\ allDataPlane = << >>
  /\ classification = NoClassification
  /\ oracleCalls = << >>
  /\ batchResults = << >>
  /\ oracleReplies = << >>
  /\ serviceOps = NoResult
  /\ policy = NotGenerated

\* a run for a list of services, each over the cases of WorldsLoop
InitLoop ==
  /\ services \in SeqsUpTo(ServiceIds, MaxServices) \ { << >> }
  /\ fs \in { [ s \in ServiceIds |-> IF s = sA THEN a ELSE e ] :
                a \in InitWorlds(sA, services, WorldsLoop),
                e \in InitWorlds(sE, services, WorldsLoop) }
  /\ Start

-----------------------------------------------------------------------------
(* Operation Aggregator: ExtractDetailedOperationsFromService, step by step *)

serviceName == services[idx]

\* every operation handed to ClassifyOperations
ClassifierInputAll == operations \o unsupportedOperations

\* operations.go 85: the operations handed to ClassifyOperations
ClassifierInput == unsupportedOperations

\* the orders in which a range loop may visit the entries S of a map
Orders(S) ==
  { o \in [ 1..Cardinality(S) -> S ] : \A x \in S : \E k \in DOMAIN o : o[k] = x }

SetFrame(f) ==
  /\ operationNames' = f.operationNames
  /\ operations' = f.operations
  /\ unsupportedOperations' = f.unsupportedOperations
  /\ supportedCount' = f.supportedCount
  /\ scanCalls' = f.scanCalls

\* main 125-130 and operations.go 37-56: the loop takes the next service and
\* calls ExtractDetailedOperationsFromService, which loads the model; an
\* error is printed and the loop continues with the next service.
ExtractLoad ==
  /\ pc = "loop"
  /\ idx <= Len(services)
  /\ attempted' = Append(attempted, serviceName)
  /\ serviceOps' = NoResult
  /\ operations' = << >>
  /\ unsupportedOperations' = << >>
  /\ operationNames' = {}
  /\ supportedCount' = 0
  /\ scanCalls' = << >>
  /\ oracleCalls' = << >>
  /\ batchResults' = << >>
  /\ oracleReplies' = << >>
  /\ classification' = NoClassification
  /\ policy' = NotGenerated
  /\ IF fs[serviceName].model.status = "ok"
     THEN pc' = "service_shapes" /\ idx' = idx
     ELSE pc' = "loop" /\ idx' = idx + 1
  /\ UNCHANGED << services, classifyFlag, generatePoliciesFlag, fs,
                  documented,
                  policyFailures,
                  totalOperations, successfulServices, opsFiles, policyFiles,
                  clsNames, batchSize, clsI, allControlPlane, allDataPlane >>

\* operations.go 58-67: the first service shape with a non-empty reference
\* list that the range loop reaches has its references processed in order
CollectServiceShape ==
  /\ pc = "service_shapes"
  /\ LET candidates == { sh \in fs[serviceName].model.Shapes :
                           sh.Type = "service" /\ Len(sh.Operations) > 0 }
     IN  IF candidates = {}
         THEN SetFrame(Frame)
         ELSE \E sh \in candidates :
                SetFrame(ProcessTargets(sh.Operations, serviceName, Frame))
  /\ pc' = "operation_shapes"
  /\ UNCHANGED << services, classifyFlag, generatePoliciesFlag, fs, batchResults,
                  oracleReplies,
                  documented,
                  policyFailures, idx,
                  totalOperations, successfulServices, opsFiles, policyFiles,
                  attempted, clsNames, batchSize, clsI, allControlPlane,
                  allDataPlane, classification, oracleCalls, serviceOps,
                  policy >>

\* operations.go 69-75: every shape of type "operation", in the order the
\* range loop reaches them, has its own name processed
CollectOperationShapes ==
  /\ pc = "operation_shapes"
  /\ LET opShapes == { sh \in fs[serviceName].model.Shapes : sh.Type = "operation" }
     IN  \E order \in Orders(opShapes) :
           SetFrame(ProcessTargets([ k \in DOMAIN order |-> order[k].name ],
                                   serviceName, Frame))
  /\ pc' = "classify"
  /\ UNCHANGED << services, classifyFlag, generatePoliciesFlag, fs, batchResults,
                  oracleReplies,
                  documented,
                  policyFailures, idx,
                  totalOperations, successfulServices, opsFiles, policyFiles,
                  attempted, clsNames, batchSize, clsI, allControlPlane,
                  allDataPlane, classification, oracleCalls, serviceOps,
                  policy >>

\* operations.go 84-85 and ClassifyOperations: with classification enabled
\* and unsupported operations left, their names are handed to
\* classifyInBatches with maxOperationsPerBatch
ClassifyOperations ==
  /\ pc = "classify"
  /\ classifyFlag /\ Len(unsupportedOperations) > 0
  /\ clsNames' = NamesOf(ClassifierInput)
  /\ batchSize' = maxOperationsPerBatch
  /\ clsI' = 0
  /\ allControlPlane' = << >>
  /\ allDataPlane' = << >>
  /\ pc' = "batch"
  /\ UNCHANGED << services, classifyFlag, generatePoliciesFlag, fs, batchResults,
                  oracleReplies,
                  documented,
                  policyFailures, idx,
                  totalOperations, successfulServices, opsFiles, policyFiles,
                  attempted, operations, unsupportedOperations, operationNames,
                  supportedCount, scanCalls, classification, oracleCalls,
                  serviceOps, policy >>

\* the result of one iteration of the loop of classifyInBatches (158-181)
\* for the oracle outcome out: [failed, ControlPlane, DataPlane]
BatchResult(out) ==
  LET result == parseClassificationResponse(out.response)
  IN  IF out.err THEN [ err |-> TRUE, ControlPlane |-> << >>, DataPlane |-> << >> ]
      ELSE result

\* ClassifyBatch returning the lists of the earlier batches when a batch fails
ClassifyBatchKeepsPartial ==
  /\ pc = "batch"
  /\ clsI < Len(clsNames)
  /\ LET batch == Batch(clsNames, clsI, batchSize)
     IN  /\ oracleCalls' = Append(oracleCalls, batch)
         /\ \E out \in OracleOutcomes(batch, Range(NamesOf(operations))) :
              LET result == BatchResult(out)
              IN  /\ oracleReplies' = Append(oracleReplies, out)
                  /\ IF result.err
                     THEN /\ classification' =
                               [ err |-> FALSE, ControlPlane |-> allControlPlane,
                                 DataPlane |-> allDataPlane ]
                          /\ pc' = "classified"
                          /\ UNCHANGED << clsI, allControlPlane, allDataPlane,
                                          batchResults >>
                     ELSE /\ allControlPlane' = allControlPlane \o result.ControlPlane
                          /\ allDataPlane' = allDataPlane \o result.DataPlane
                          /\ batchResults' = Append(batchResults, result)
                          /\ clsI' = clsI + batchSize
                          /\ UNCHANGED << pc, classification >>
  /\ UNCHANGED << services, classifyFlag, generatePoliciesFlag, fs,
                  documented, policyFailures, idx, totalOperations,
                  successfulServices, opsFiles, policyFiles, attempted,
                  operations, unsupportedOperations, operationNames,
                  supportedCount, scanCalls, clsNames, batchSize, serviceOps,
                  policy >>

\* classifyInBatches 158-181: one iteration, that is one oracle call
ClassifyBatch ==
  /\ pc = "batch"
  /\ clsI < Len(clsNames)
  /\ LET batch == Batch(clsNames, clsI, batchSize)
     IN  /\ oracleCalls' = Append(oracleCalls, batch)
         /\ \E out \in OracleOutcomes(batch, Range(NamesOf(operations))) :
              LET result == BatchResult(out)
              IN  /\ oracleReplies' = Append(oracleReplies, out)
                  /\ IF result.err
                     THEN /\ classification' = result
                          /\ pc' = "classified"
                          /\ UNCHANGED << clsI, allControlPlane, allDataPlane,
                                          batchResults >>
                     ELSE /\ allControlPlane' = allControlPlane \o result.ControlPlane
                          /\ allDataPlane' = allDataPlane \o result.DataPlane
                          /\ batchResults' = Append(batchResults, result)
                          /\ clsI' = clsI + batchSize
                          /\ UNCHANGED << pc, classification >>
  /\ UNCHANGED << services, classifyFlag, generatePoliciesFlag, fs,
                  documented, policyFailures, idx, totalOperations,
                  successfulServices, opsFiles, policyFiles, attempted,
                  operations, unsupportedOperations, operationNames,
                  supportedCount, scanCalls, clsNames, batchSize, serviceOps,
                  policy >>

\* classifyInBatches 183-186: after the last batch the lists are returned
ClassifyReturn ==
  /\ pc = "batch"
  /\ clsI >= Len(clsNames)
  /\ classification' = [ err |-> FALSE, ControlPlane |-> allControlPlane,
                         DataPlane |-> allDataPlane ]
  /\ pc' = "classified"
  /\ UNCHANGED << services, classifyFlag, generatePoliciesFlag, fs, batchResults,
                  oracleReplies,
                  documented,
                  policyFailures, idx,
                  totalOperations, successfulServices, opsFiles, policyFiles,
                  attempted, operations, unsupportedOperations, operationNames,
                  supportedCount, scanCalls, clsNames, batchSize, clsI,
                  allControlPlane, allDataPlane, oracleCalls, serviceOps,
                  policy >>

\* FinalOperations applying the classification to every operation
FinalOperationsClassifyAll(ops, unsupported, classified, cls) ==
  IF classified
  THEN IF cls.err
       THEN ops \o MarkUnknown(unsupported)
       ELSE ApplyClassification(ops \o unsupported, cls)
  ELSE IF Len(unsupported) > 0 THEN ops \o unsupported ELSE ops

\* FinalOperations defaulting to data plane without classification
FinalOperationsDefaulted(ops, unsupported, classified, cls) ==
  IF classified
  THEN IF cls.err
       THEN ops \o MarkUnknown(unsupported)
       ELSE ops \o ApplyClassification(unsupported, cls)
  ELSE ops \o ApplyClassification(unsupported, NoClassification)

\* FinalOperations leaving the unsupported operations out on a failure
FinalOperationsDropOnError(ops, unsupported, classified, cls) ==
  IF classified
  THEN IF cls.err
       THEN ops
       ELSE ops \o ApplyClassification(unsupported, cls)
  ELSE IF Len(unsupported) > 0 THEN ops \o unsupported ELSE ops

\* FinalOperations with the unsupported operations put first
FinalOperationsUnsupportedFirst(ops, unsupported, classified, cls) ==
  IF classified
  THEN IF cls.err
       THEN MarkUnknown(unsupported) \o ops
       ELSE ApplyClassification(unsupported, cls) \o ops
  ELSE IF Len(unsupported) > 0 THEN unsupported \o ops ELSE ops

\* operations.go 84-99: the operations list once classification is over
\* (classified = TRUE: ClassifyOperations was called and returned cls)
FinalOperations(ops, unsupported, classified, cls) ==
  IF classified
  THEN IF cls.err
       THEN ops \o MarkUnknown(unsupported)
       ELSE ops \o ApplyClassification(unsupported, cls)
  ELSE IF Len(unsupported) > 0 THEN ops \o unsupported ELSE ops

\* operations.go 84-99 after ClassifyOperations has returned: the
\* unsupported operations join the list, classified or marked Unknown.
\* ApplyClassification writes the types into the elements of the slice it is
\* given, the loop of the failure branch into copies.
JoinOperations ==
  /\ pc = "classified"
  /\ operations' = FinalOperations(operations, unsupportedOperations, TRUE,
                                   classification)
  /\ unsupportedOperations' =
       IF classification.err THEN unsupportedOperations
       ELSE ApplyClassification(unsupportedOperations, classification)
  /\ pc' = "joined"
  /\ UNCHANGED << services, classifyFlag, generatePoliciesFlag, fs,
                  documented, policyFailures, idx, totalOperations,
                  successfulServices, opsFiles, policyFiles, attempted,
                  operationNames, supportedCount, scanCalls, clsNames,
                  batchSize, clsI, allControlPlane, allDataPlane,
                  classification, oracleCalls, batchResults, oracleReplies,
                  serviceOps, policy >>

\* Result without the test for an empty list
ResultNoEmptyCheck(name, ops, supported) ==
  LET counts == CountControlPlaneOperations(ops)
  IN  ServiceOperations(name, Len(ops), supported, counts[1], counts[2], ops)

\* operations.go 101-115: the value returned for the finished list
Result(name, ops, supported) ==
  LET counts == CountControlPlaneOperations(ops)
  IN  IF Len(ops) = 0 THEN NoResult
      ELSE ServiceOperations(name, Len(ops), supported, counts[1], counts[2], ops)

\* operations.go 84-115 and main 127-135: the unsupported operations join the
\* list (classified, marked Unknown, or as they are), the counts are taken
\* and the result is returned to main; on an error main continues with the
\* next service.  The locals of the call end with it.
FinishExtract ==
  /\ \/ pc = "classified"
     \/ pc = "classify" /\ ~(classifyFlag /\ Len(unsupportedOperations) > 0)
  /\ LET final == FinalOperations(operations, unsupportedOperations,
                                  pc = "classified", classification)
         res   == Result(serviceName, final, supportedCount)
     IN  /\ serviceOps' = res
         /\ IF res.valid /\ Len(res.Operations) > 0
            THEN pc' = "write" /\ idx' = idx
            ELSE pc' = "loop" /\ idx' = idx + 1
  /\ operations' = << >>
  /\ unsupportedOperations' = << >>
  /\ operationNames' = {}
  /\ supportedCount' = 0
  /\ clsNames' = << >>
  /\ clsI' = 0
  /\ allControlPlane' = << >>
  /\ allDataPlane' = << >>
  /\ UNCHANGED << services, classifyFlag, generatePoliciesFlag, fs, batchResults,
                  oracleReplies,
                  documented,
                  policyFailures,
                  totalOperations, successfulServices, opsFiles, policyFiles,
                  attempted, scanCalls, batchSize, classification, oracleCalls,
                  policy >>

-----------------------------------------------------------------------------
(* main *)

\* main 162-163 and the loop's step to the next service
Counted ==
  /\ totalOperations' = totalOperations + Len(serviceOps.Operations)
  /\ successfulServices' = successfulServices + 1
  /\ idx' = idx + 1
  /\ pc' = "loop"

\* WriteOperations ending the run on a write error
WriteOperationsAbort ==
  /\ pc = "write"
  /\ \E writeErr \in BOOLEAN :
       IF writeErr
       THEN /\ pc' = "done" /\ idx' = idx
            /\ UNCHANGED << opsFiles, documented, totalOperations,
                            successfulServices >>
       ELSE /\ opsFiles' = [ opsFiles EXCEPT ![serviceName] =
                               [ written |-> TRUE, doc |-> serviceOps ] ]
            /\ documented' = Append(documented, serviceName)
            /\ IF generatePoliciesFlag
               THEN /\ pc' = "policy"
                    /\ UNCHANGED << idx, totalOperations, successfulServices >>
               ELSE Counted
  /\ UNCHANGED << services, classifyFlag, generatePoliciesFlag, fs, batchResults,
                  oracleReplies,
                  policyFiles,
                  policyFailures,
                  attempted, operations, unsupportedOperations, operationNames,
                  supportedCount, scanCalls, clsNames, batchSize, clsI,
                  allControlPlane, allDataPlane, classification, oracleCalls,
                  serviceOps, policy >>

\* main 137-143: the operations document is written; a write error is
\* printed and the loop continues with the next service
WriteOperations ==
  /\ pc = "write"
  /\ \E writeErr \in BOOLEAN :
       IF writeErr
       THEN /\ pc' = "loop" /\ idx' = idx + 1
            /\ UNCHANGED << opsFiles, documented, totalOperations,
                            successfulServices >>
       ELSE /\ opsFiles' = [ opsFiles EXCEPT ![serviceName] =
                               [ written |-> TRUE, doc |-> serviceOps ] ]
            /\ documented' = Append(documented, serviceName)
            /\ IF generatePoliciesFlag
               THEN /\ pc' = "policy"
                    /\ UNCHANGED << idx, totalOperations, successfulServices >>
               ELSE Counted
  /\ UNCHANGED << services, classifyFlag, generatePoliciesFlag, fs, batchResults,
                  oracleReplies,
                  policyFiles,
                  policyFailures,
                  attempted, operations, unsupportedOperations, operationNames,
                  supportedCount, scanCalls, clsNames, batchSize, clsI,
                  allControlPlane, allDataPlane, classification, oracleCalls,
                  serviceOps, policy >>

\* GeneratePolicy leaving the iteration, uncounted, when a failure is printed
GeneratePolicyContinue ==
  /\ pc = "policy"
  /\ LET g           == GenerateSinglePolicy(serviceName, serviceOps.Operations)
         validateErr == ~g.err /\ ValidatePolicyJSON(g.policy)
     IN  \E writePolicyErr \in IF g.err THEN { FALSE } ELSE BOOLEAN :
           /\ policy' = [ called |-> TRUE, err |-> g.err, policy |-> g.policy,
                          validateErr |-> validateErr,
                          writePolicyErr |-> writePolicyErr ]
           /\ policyFiles' =
                IF g.err \/ writePolicyErr THEN policyFiles
                ELSE [ policyFiles EXCEPT ![serviceName] =
                         [ written |-> TRUE, doc |-> g.policy ] ]
           /\ policyFailures' =
                IF g.err \/ validateErr \/ writePolicyErr
                THEN Append(policyFailures, serviceName)
                ELSE policyFailures
           /\ IF g.err \/ validateErr \/ writePolicyErr
              THEN /\ pc' = "loop" /\ idx' = idx + 1
                   /\ UNCHANGED << totalOperations, successfulServices >>
              ELSE Counted
  /\ UNCHANGED << services, classifyFlag, generatePoliciesFlag, fs, batchResults,
                  oracleReplies,
                  documented,
                  opsFiles, attempted, operations, unsupportedOperations,
                  operationNames, supportedCount, scanCalls, clsNames, batchSize,
                  clsI, allControlPlane, allDataPlane, classification,
                  oracleCalls, serviceOps >>

\* main 145-163: the policy is generated, validated and written; every
\* failure is printed and the service is counted
GeneratePolicy ==
  /\ pc = "policy"
  /\ LET g           == GenerateSinglePolicy(serviceName, serviceOps.Operations)
         validateErr == ~g.err /\ ValidatePolicyJSON(g.policy)
     IN  \E writePolicyErr \in IF g.err THEN { FALSE } ELSE BOOLEAN :
           /\ policy' = [ called |-> TRUE, err |-> g.err, policy |-> g.policy,
                          validateErr |-> validateErr,
                          writePolicyErr |-> writePolicyErr ]
           /\ policyFiles' =
                IF g.err \/ writePolicyErr THEN policyFiles
                ELSE [ policyFiles EXCEPT ![serviceName] =
                         [ written |-> TRUE, doc |-> g.policy ] ]
           /\ policyFailures' =
                IF g.err \/ validateErr \/ writePolicyErr
                THEN Append(policyFailures, serviceName)
                ELSE policyFailures
  /\ Counted
  /\ UNCHANGED << services, classifyFlag, generatePoliciesFlag, fs, batchResults,
                  oracleReplies,
                  documented,
                  opsFiles, attempted, operations, unsupportedOperations,
                  operationNames, supportedCount, scanCalls, clsNames, batchSize,
                  clsI, allControlPlane, allDataPlane, classification,
                  oracleCalls, serviceOps >>

\* main 166-167: after the last service the tally is printed
EndRun ==
  /\ pc = "loop"
  /\ idx > Len(services)
  /\ pc' = "done"
  /\ UNCHANGED << services, classifyFlag, generatePoliciesFlag, fs, batchResults,
                  oracleReplies,
                  documented,
                  policyFailures, idx,
                  totalOperations, successfulServices, opsFiles, policyFiles,
                  attempted, operations, unsupportedOperations, operationNames,
                  supportedCount, scanCalls, clsNames, batchSize, clsI,
                  allControlPlane, allDataPlane, classification, oracleCalls,
                  serviceOps, policy >>

Next ==
  \/ ExtractLoad
  \/ CollectServiceShape
  \/ CollectOperationShapes
  \/ ClassifyOperations
  \/ ClassifyBatch
  \/ ClassifyReturn
  \/ FinishExtract
  \/ WriteOperations
  \/ GeneratePolicy
  \/ EndRun

Spec == Init /\ [][Next]_vars

SpecRun == InitRun /\ [][Next]_vars

SpecNames == InitNames /\ [][Next]_vars

SpecScan == InitScan /\ [][Next]_vars

\* the steps of ClassifyOperations
NextClassify ==
  \/ ClassifyOperations
  \/ ClassifyBatch
  \/ ClassifyReturn

SpecBatch == InitBatch /\ [][NextClassify]_vars

\* ClassifyOperations and the joining of the list that follows it
NextApply ==
  \/ ClassifyOperations
  \/ ClassifyBatch
  \/ ClassifyReturn
  \/ JoinOperations

SpecApply == InitBatch /\ [][NextApply]_vars

\* main is one sequential process: a step that can be taken is taken
SpecLoop == InitLoop /\ [][Next]_vars /\ WF_vars(Next)

-----------------------------------------------------------------------------
(* Properties *)

\* the service of the last call of ExtractDetailedOperationsFromService
CurService == attempted[Len(attempted)]

\* the Operations list of the value returned by the last call
RetOps == serviceOps.Operations

\* the positions of ops that carry a source location
Located(ops) == { k \in DOMAIN ops : HasLocation(ops[k]) }

\* the scanner finds a call site of name n in the controller of service s
Found(s, n) ==
  findOperationInController(s, n)[1] # << >> /\ findOperationInController(s, n)[2] > 0

\* the last call is over: main is past the point where it returned
CallOver == pc \in { "write", "policy", "loop", "done" }

\* the concatenation of the batches submitted to the oracle
RECURSIVE Flatten(_)
Flatten(ss) == IF ss = << >> THEN << >> ELSE Head(ss) \o Flatten(Tail(ss))

\* the names of the operations of ops without a source location, in order
UnlocatedNames(ops) ==
  NamesOf(SelectSeqBy(ops, { op \in Range(ops) : ~HasLocation(op) }))

\* C1: in every returned ServiceOperations, TotalOperations is the length of
\* Operations and SupportedOperations is the number of its entries with a
\* source location.
C1_TotalAndSupportedMatch ==
  serviceOps.valid =>
    /\ serviceOps.TotalOperations = Len(RetOps)
    /\ serviceOps.SupportedOperations = Cardinality(Located(RetOps))

\* C1 witness: a value returned after a failed classification, with an
\* implemented and an Unknown operation
C1_Witness ==
  /\ serviceOps.valid
  /\ classification.err
  /\ Located(RetOps) # {}
  /\ \E k \in DOMAIN RetOps : RetOps[k].Type = "Unknown"

\* C2: in every returned ServiceOperations, ControlPlaneOps is the number of
\* operations of type control_plane and SupportedControlPlaneOps the number
\* of those with a source location, also when classification is enabled and
\* no operation is left to classify.
C2_ControlPlaneCountsMatch ==
  serviceOps.valid =>
    /\ serviceOps.ControlPlaneOps =
         Cardinality({ k \in DOMAIN RetOps : RetOps[k].Type = "control_plane" })
    /\ serviceOps.SupportedControlPlaneOps =
         Cardinality({ k \in Located(RetOps) : RetOps[k].Type = "control_plane" })

\* C2 witness: classification enabled, every operation implemented, no
\* oracle call, and the counts are not zero
C2_Witness ==
  /\ serviceOps.valid
  /\ classifyFlag
  /\ oracleCalls = << >>
  /\ batchResults = << >>
  /\ oracleReplies = << >>
  /\ Located(RetOps) = DOMAIN RetOps
  /\ Len(RetOps) >= 2
  /\ serviceOps.ControlPlaneOps = Len(RetOps)
  /\ serviceOps.SupportedControlPlaneOps = Len(RetOps)

\* C3: no two entries of the returned list have the same name; every name of
\* a shape of type "operation" and every name of the processed service
\* shape's references is in the list; the scanner was called exactly once
\* for each name of the list and never for the empty name.
C3_NamesUnique ==
  serviceOps.valid =>
    LET shapes     == fs[CurService].model.Shapes
        candidates == { sh \in shapes : sh.Type = "service" /\ Len(sh.Operations) > 0 }
        listed     == Range(NamesOf(RetOps))
    IN  /\ \A i, j \in DOMAIN RetOps : i # j => RetOps[i].Name # RetOps[j].Name
        /\ \A i, j \in DOMAIN scanCalls : i # j => scanCalls[i] # scanCalls[j]
        /\ Range(scanCalls) = listed
        /\ << >> \notin listed
        /\ \A sh \in shapes :
             sh.Type = "operation" /\ extractOperationName(sh.name) # << >>
               => extractOperationName(sh.name) \in listed
        /\ \/ candidates = {}
           \/ \E sh \in candidates :
                \A k \in DOMAIN sh.Operations :
                  extractOperationName(sh.Operations[k]) # << >>
                    => extractOperationName(sh.Operations[k]) \in listed

\* C3 witness: F is referenced twice by the service shape and is also a
\* shape of type "operation"
C3_Witness ==
  /\ serviceOps.valid
  /\ Shape(<< "n", "#", "S" >>, "service",
           << << "n", "#", "F" >>, << "n", "#", "F" >> >>)
       \in fs[CurService].model.Shapes
  /\ Shape(<< "n", "#", "F" >>, "operation", << >>) \in fs[CurService].model.Shapes
  /\ nF \in Range(NamesOf(RetOps))

\* C4: in every returned ServiceOperations, every operation with a source
\* location has type control_plane.
C4_ImplementedIsControlPlane ==
  serviceOps.valid =>
    \A k \in Located(RetOps) : RetOps[k].Type = "control_plane"

\* C4 witness: the oracle was called and classified an unimplemented
\* operation as data plane while an implemented operation is in the list
C4_Witness ==
  /\ serviceOps.valid
  /\ oracleCalls # << >>
  /\ ~classification.err
  /\ Located(RetOps) # {}
  /\ \E k \in DOMAIN RetOps : RetOps[k].Name \in Range(classification.DataPlane)
                               /\ HasLocation(RetOps[k])
  /\ \E k \in DOMAIN RetOps : RetOps[k].Type = "data_plane"

\* C5: with classification disabled, every operation the scanner does not
\* find is in the returned list with the empty type, and no operation
\* without a source location has another type.
C5_DisabledLeavesUnclassified ==
  serviceOps.valid /\ ~classifyFlag =>
    /\ \A k \in DOMAIN RetOps :
         ~HasLocation(RetOps[k]) => RetOps[k].Type = Unclassified
    /\ \A n \in Range(scanCalls) :
         ~Found(CurService, n) =>
           \E k \in DOMAIN RetOps :
             RetOps[k].Name = n /\ RetOps[k].Type = Unclassified

\* C5 witness: classification disabled, an implemented and an unimplemented
\* operation returned
C5_Witness ==
  /\ serviceOps.valid
  /\ ~classifyFlag
  /\ Located(RetOps) # {}
  /\ \E k \in DOMAIN RetOps : ~HasLocation(RetOps[k]) /\ RetOps[k].Type = Unclassified

\* C6: once ClassifyOperations has returned an error and the call is over, a
\* value was returned in which every scanned name is present exactly once,
\* the unimplemented ones with type Unknown and the implemented ones with
\* their location.
C6_FailureMarksUnknown ==
  classification.err /\ CallOver =>
    /\ serviceOps.valid
    /\ Len(RetOps) = Len(scanCalls)
    /\ \A n \in Range(scanCalls) :
         \E k \in DOMAIN RetOps :
           /\ RetOps[k].Name = n
           /\ IF Found(CurService, n)
              THEN /\ RetOps[k].File = findOperationInController(CurService, n)[1]
                   /\ RetOps[k].Line = findOperationInController(CurService, n)[2]
                   /\ RetOps[k].Type = "control_plane"
              ELSE /\ ~HasLocation(RetOps[k])
                   /\ RetOps[k].Type = "Unknown"

\* C6 witness: the call is over after a failed classification, with two
\* Unknown operations and an implemented one
C6_Witness ==
  /\ classification.err
  /\ pc = "write"
  /\ Located(RetOps) # {}
  /\ Cardinality({ k \in DOMAIN RetOps : RetOps[k].Type = "Unknown" }) >= 2

\* a model yields no operation name: no reference of a service shape and no
\* name of a shape of type "operation" has exactly one '#' followed by text
YieldsNoName(model) ==
  \A sh \in model.Shapes :
    /\ sh.Type = "service" =>
         \A k \in DOMAIN sh.Operations : extractOperationName(sh.Operations[k]) = << >>
    /\ sh.Type = "operation" => extractOperationName(sh.name) = << >>

\* C7: a returned ServiceOperations never has an empty list, no operations
\* document holds an empty list, and for a model that yields no name the call
\* returns no value, main never reaches the write, and no document of the
\* service exists.
C7_NoOperationsIsAnError ==
  /\ serviceOps.valid => Len(RetOps) > 0
  /\ \A s \in ServiceIds : opsFiles[s].written => Len(opsFiles[s].doc.Operations) > 0
  /\ attempted # << >> /\ YieldsNoName(fs[CurService].model) =>
       /\ ~serviceOps.valid
       /\ pc \notin { "write", "policy" }
       /\ ~opsFiles[CurService].written

\* C7 witness: the run is over for a parsed model whose references and
\* operation shape names are all malformed
C7_Witness ==
  /\ pc = "done"
  /\ fs[CurService].model.status = "ok"
  /\ YieldsNoName(fs[CurService].model)
  /\ \E sh \in fs[CurService].model.Shapes :
       sh.Type = "service" /\ Len(sh.Operations) = 2
  /\ \E sh \in fs[CurService].model.Shapes : sh.Type = "operation"

\* C8: after a classification that succeeded, every returned operation
\* without a source location has type control_plane or data_plane, and
\* data_plane when its name is in neither list of the classification.
C8_UnnamedDefaultsToDataPlane ==
  serviceOps.valid /\ oracleCalls # << >> /\ ~classification.err =>
    \A k \in DOMAIN RetOps :
      ~HasLocation(RetOps[k]) =>
        /\ RetOps[k].Type \in { "control_plane", "data_plane" }
        /\ RetOps[k].Name \notin Range(classification.ControlPlane)
                                   \cup Range(classification.DataPlane)
             => RetOps[k].Type = "data_plane"

\* C8 witness: a successful classification that names one unimplemented
\* operation as control plane and leaves another unnamed
C8_Witness ==
  /\ serviceOps.valid
  /\ oracleCalls # << >>
  /\ ~classification.err
  /\ \E k \in DOMAIN RetOps :
       /\ ~HasLocation(RetOps[k])
       /\ RetOps[k].Name \notin Range(classification.ControlPlane)
                                  \cup Range(classification.DataPlane)
       /\ RetOps[k].Type = "data_plane"
  /\ \E k \in DOMAIN RetOps :
       ~HasLocation(RetOps[k]) /\ RetOps[k].Type = "control_plane"

\* C9: the oracle is called only with classification enabled; every name
\* submitted is a scanned name the scanner does not find; the names submitted
\* so far are the first names of the unimplemented operations in order, and
\* all of them once ClassifyOperations has succeeded; a returned value with
\* classification disabled or every operation implemented saw no call.
C9_OracleSeesOnlyUnimplemented ==
  LET sent == Flatten(oracleCalls)
  IN  /\ oracleCalls # << >> => classifyFlag
      /\ \A k \in DOMAIN sent :
           sent[k] \in Range(scanCalls) /\ ~Found(CurService, sent[k])
      /\ serviceOps.valid =>
           /\ Len(sent) <= Len(UnlocatedNames(RetOps))
           /\ sent = SubSeq(UnlocatedNames(RetOps), 1, Len(sent))
           /\ oracleCalls # << >> /\ ~classification.err => sent = UnlocatedNames(RetOps)
           /\ classifyFlag /\ UnlocatedNames(RetOps) # << >> => oracleCalls # << >>
           /\ Located(RetOps) = DOMAIN RetOps => oracleCalls = << >>

\* C9 witness: an oracle call was made for the two unimplemented operations
\* of a service that also has an implemented one
C9_Witness ==
  /\ serviceOps.valid
  /\ oracleCalls # << >>
  /\ Located(RetOps) # {}
  /\ Len(Flatten(oracleCalls)) = 2

\* C10: GenerateSinglePolicy returns an error and no policy when no operation
\* of its input has a source location, and otherwise a policy whose action
\* list has one entry per operation with a source location.
C10_PolicyActionCount ==
  policy.called =>
    IF Located(RetOps) = {}
    THEN policy.err /\ policy.policy = NoPolicy
    ELSE /\ ~policy.err
         /\ Len(policy.policy.Statement) = 1
         /\ Len(policy.policy.Statement[1].Action) = Cardinality(Located(RetOps))

\* C10 witness: a policy of two actions for a list that also holds an
\* operation without a source location
C10_Witness ==
  /\ policy.called
  /\ ~policy.err
  /\ Cardinality(Located(RetOps)) = 2
  /\ Len(RetOps) = 3

\* the namespace of the actions of service s: the model name of the
\* controller's generator.yaml when it resolves, the service identifier
\* otherwise, in lower case
Namespace(s) ==
  LET c == fs[s].controller
  IN  IF c.exists /\ c.generator.readable /\ c.generator.model_name # << >>
      THEN ToLower(c.generator.model_name)
      ELSE ToLower(s)

\* C11: a policy returned by GenerateSinglePolicy has exactly one statement,
\* with effect Allow, whose i-th action is "<namespace>:<name>" for the i-th
\* operation of the input with a source location, in input order.
C11_ActionsInOrder ==
  policy.called /\ ~policy.err =>
    /\ Len(policy.policy.Statement) = 1
    /\ policy.policy.Statement[1].Effect = "Allow"
    /\ LET Action == policy.policy.Statement[1].Action
       IN  /\ Len(Action) = Cardinality(Located(RetOps))
           /\ \A k \in Located(RetOps) :
                Action[Cardinality({ j \in Located(RetOps) : j <= k })]
                  = Namespace(CurService) \o << ":" >> \o RetOps[k].Name

\* C11 witness: a policy for service "E", whose generator.yaml cannot be
\* read, with the single action "e:F"
C11_Witness ==
  /\ policy.called
  /\ ~policy.err
  /\ CurService = sE
  /\ policy.policy.Statement[1].Action = << << "e", ":", "F" >> >>

\* the services attempted so far are the first requested ones, in order, and
\* outside an iteration the success count is the number of documents written
LoopInOrder ==
  /\ Len(attempted) <= Len(services)
  /\ attempted = SubSeq(services, 1, Len(attempted))
  /\ pc \in { "loop", "done" } =>
       /\ idx = Len(attempted) + 1
       /\ successfulServices = Len(documented)
  /\ pc = "done" => attempted = services

C13_TwoRunsIdentical ==
  ~classifyFlag /\ pc = "write" /\ opsFiles[CurService].written =>
    RetOps = opsFiles[CurService].doc.Operations

\* the positions of '#' in a reference
Hashes(target) == { k \in DOMAIN target : target[k] = "#" }

\* the name a reference stands for: the text after its '#' when it has
\* exactly one, the empty name otherwise
NameOf(target) ==
  IF Cardinality(Hashes(target)) = 1
  THEN SubSeq(target, (CHOOSE k \in Hashes(target) : TRUE) + 1, Len(target))
  ELSE << >>

\* the references of the service shapes and the names of the shapes of type
\* "operation" of the model of service s
ReferencesOf(s) ==
  UNION { Range(sh.Operations) : sh \in { x \in fs[s].model.Shapes : x.Type = "service" } }
  \cup { sh.name : sh \in { x \in fs[s].model.Shapes : x.Type = "operation" } }

\* C14: extractOperationName returns the text after the '#' of a reference
\* with exactly one '#' and the empty name for any other reference; the
\* returned list has no entry with the empty name, and every entry is named
\* by a reference of the model with exactly one '#'.
C14_MalformedReferencesDiscarded ==
  /\ \A t \in NameTargets \cup NameKeys : extractOperationName(t) = NameOf(t)
  /\ << >> \notin Range(scanCalls)
  /\ serviceOps.valid =>
       \A k \in DOMAIN RetOps :
         /\ RetOps[k].Name # << >>
         /\ \E t \in ReferencesOf(CurService) :
              Cardinality(Hashes(t)) = 1 /\ RetOps[k].Name = NameOf(t)

\* C14 witness: a list with the single entry F, returned for a model whose
\* references are n#F and n#F#B and which has the operation shapes "B",
\* "n#" and "n#B#F"
C14_Witness ==
  /\ serviceOps.valid
  /\ NamesOf(RetOps) = << nF >>
  /\ ReferencesOf(CurService) =
       { << "n", "#", "F" >>, << "n", "#", "F", "#", "B" >>, << "B" >>,
         << "n", "#" >>, << "n", "#", "B", "#", "F" >> }

\* the controller of service s is missing, or has no pkg subtree
NoSourceTree(s) == ~fs[s].controller.exists \/ ~fs[s].controller.hasPkg

\* C15: for a service without a controller directory, or with one that has
\* no pkg subtree, findOperationInController finds no operation; a call that
\* collected names returns a value, with SupportedOperations = 0 and no
\* source location, and with classification disabled every type is empty.
C15_NoControllerNothingFound ==
  attempted # << >> /\ NoSourceTree(CurService) =>
    /\ \A n \in { nF, nB, nG } :
         findOperationInController(CurService, n) = << << >>, 0 >>
    /\ operations = << >> /\ supportedCount = 0
    /\ CallOver /\ scanCalls # << >> => serviceOps.valid
    /\ serviceOps.valid =>
         /\ serviceOps.SupportedOperations = 0
         /\ serviceOps.SupportedControlPlaneOps = 0
         /\ Len(RetOps) = Len(scanCalls)
         /\ \A k \in DOMAIN RetOps :
              /\ RetOps[k].File = << >> /\ RetOps[k].Line = 0
              /\ ~classifyFlag => RetOps[k].Type = Unclassified

\* C15 witness: two operations returned, classification disabled, for a
\* service whose controller directory exists without pkg
C15_Witness ==
  /\ serviceOps.valid
  /\ ~classifyFlag
  /\ fs[CurService].controller.exists
  /\ ~fs[CurService].controller.hasPkg
  /\ Len(RetOps) >= 2

\* the policy generation of the current service has failed: GenerateSinglePolicy
\* returned an error, the validation failed, or the policy was not written
PolicyFailed ==
  policy.called /\ (policy.err \/ policy.validateErr \/ policy.writePolicyErr)

\* C16: the policy of a service is generated only once the service's
\* operations document holds the returned value; after a failure of the
\* policy generation the document still holds that value, the service is
\* counted as successful, and the loop goes on to the next service, if any.
C16_PolicyFailureKeepsDocument ==
  /\ pc = "policy" =>
       /\ opsFiles[serviceName] = [ written |-> TRUE, doc |-> serviceOps ]
       /\ documented # << >> /\ documented[Len(documented)] = serviceName
  /\ \A k \in DOMAIN policyFailures : policyFailures[k] \in Range(documented)
  /\ PolicyFailed =>
       /\ opsFiles[CurService] = [ written |-> TRUE, doc |-> serviceOps ]
       /\ documented[Len(documented)] = CurService
       /\ policyFailures[Len(policyFailures)] = CurService
       /\ successfulServices = Len(documented)
       /\ pc \in { "loop", "done" }
       /\ idx = Len(attempted) + 1
       /\ pc = "loop" /\ idx <= Len(services) => ENABLED ExtractLoad
  /\ pc = "done" =>
       /\ attempted = services
       /\ successfulServices = Len(documented)

\* C16 witness: the tally of a run over "a" and "E" in which the policy of
\* "a" was generated but could not be written, and both documents exist
C16_Witness ==
  /\ pc = "done"
  /\ services = << sA, sE >>
  /\ policyFailures = << sA >>
  /\ Located(opsFiles[sA].doc.Operations) # {}
  /\ ~policyFiles[sA].written
  /\ documented = services
  /\ successfulServices = 2

\* the control-plane lists, and the data-plane lists, of a sequence of
\* results, one after the other
ControlPlaneOf(results) ==
  Flatten([ k \in DOMAIN results |-> results[k].ControlPlane ])

DataPlaneOf(results) ==
  Flatten([ k \in DOMAIN results |-> results[k].DataPlane ])

\* classifyInBatches is running or has returned
InClassify == pc \in { "batch", "classified" }

\* C17: the batches submitted to the oracle are consecutive chunks of the
\* submitted names, in order, each of maxOperationsPerBatch names but the
\* last, which has at most as many; a batch is submitted only when the reply
\* to every earlier one has been parsed; on success every name was
\* submitted once, in ceil(n / maxOperationsPerBatch) calls, and the two
\* returned lists are the per-batch lists one after the other.
C17_BatchesInOrder ==
  InClassify =>
    LET sent == Flatten(oracleCalls)
        n    == Len(clsNames)
    IN  /\ clsNames = NamesOf(unsupportedOperations)
        /\ batchSize = maxOperationsPerBatch
        /\ \A k \in DOMAIN oracleCalls :
             /\ Len(oracleCalls[k]) >= 1
             /\ Len(oracleCalls[k]) <= maxOperationsPerBatch
             /\ k < Len(oracleCalls) => Len(oracleCalls[k]) = maxOperationsPerBatch
        /\ Len(sent) <= n /\ sent = SubSeq(clsNames, 1, Len(sent))
        /\ Len(batchResults) <= Len(oracleCalls)
        /\ Len(oracleCalls) <= Len(batchResults) + 1
        /\ pc = "batch" =>
             /\ Len(batchResults) = Len(oracleCalls)
             /\ clsI = Len(oracleCalls) * maxOperationsPerBatch
             /\ allControlPlane = ControlPlaneOf(batchResults)
             /\ allDataPlane = DataPlaneOf(batchResults)
        /\ pc = "classified" /\ ~classification.err =>
             /\ sent = clsNames
             /\ Len(oracleCalls) * maxOperationsPerBatch >= n
             /\ (Len(oracleCalls) - 1) * maxOperationsPerBatch < n
             /\ Len(batchResults) = Len(oracleCalls)
             /\ classification.ControlPlane = ControlPlaneOf(batchResults)
             /\ classification.DataPlane = DataPlaneOf(batchResults)

\* C17 witness: three batches for 201 names, the first and the third named
\* control plane and the second data plane, and the returned lists hold them
\* in that order
C17_Witness ==
  /\ pc = "classified"
  /\ ~classification.err
  /\ Len(clsNames) = 2 * maxOperationsPerBatch + 1
  /\ Len(oracleCalls) = 3
  /\ classification.ControlPlane = oracleCalls[1] \o oracleCalls[3]
  /\ classification.DataPlane = oracleCalls[2]

\* the reply to the last batch submitted was an error or did not parse
BatchFailed == Len(oracleCalls) > Len(batchResults)

\* C18: when the oracle call or the parsing fails for a batch,
\* classifyInBatches returns an error and no result, whatever the earlier
\* batches gave; no further batch is submitted, and every operation handed
\* to ClassifyOperations ends with the type Unknown.
C18_FailureDiscardsAll ==
  BatchFailed =>
    LET final == FinalOperations(operations, unsupportedOperations, TRUE,
                                 classification)
    IN  /\ pc = "classified"
        /\ classification.err
        /\ classification.ControlPlane = << >>
        /\ classification.DataPlane = << >>
        /\ Len(oracleCalls) = Len(batchResults) + 1
        /\ ~ENABLED ClassifyBatch
        /\ Len(final) = Len(clsNames)
        /\ \A k \in DOMAIN final :
             final[k].Name = clsNames[k] /\ final[k].Type = "Unknown"

\* C18 witness: of three batches the first was parsed, naming its 100
\* operations control plane, and the second failed
C18_Witness ==
  /\ classification.err
  /\ Len(clsNames) = 2 * maxOperationsPerBatch + 1
  /\ Len(oracleCalls) = 2
  /\ Len(batchResults) = 1
  /\ batchResults[1].ControlPlane = oracleCalls[1]

\* the positions of the opening and of the closing braces of a reply
Opens(response) == { k \in DOMAIN response : response[k].key = "{" }

Closes(response) == { k \in DOMAIN response : response[k].key = "}" }

\* the least and the greatest element of a non-empty set of positions
Least(S) == CHOOSE k \in S : \A j \in S : k <= j

Greatest(S) == CHOOSE k \in S : \A j \in S : k >= j

\* the reply has a closing brace after its first opening brace
HasSpan(response) ==
  /\ Opens(response) # {} /\ Closes(response) # {}
  /\ Greatest(Closes(response)) > Least(Opens(response))

\* the reply from its first opening brace to its last closing brace
SpanOf(response) ==
  SubSeq(response, Least(Opens(response)), Greatest(Closes(response)))

\* a span is one object: between its two braces there are only members, and
\* those named control_plane or data_plane are lists
OneObject(span) ==
  \A k \in 2..(Len(span) - 1) :
    /\ span[k].key \notin { "{", "}", "text" }
    /\ span[k].key \in { "control_plane", "data_plane" } => span[k].list

\* the list an object gives for key: that of its last member of that name,
\* empty when it has none
ListIn(span, key) ==
  LET at == { k \in DOMAIN span : span[k].key = key }
  IN  IF at = {} THEN << >> ELSE span[Greatest(at)].val

\* what parsing the reply must give
Parsed(response) ==
  IF HasSpan(response) /\ OneObject(SpanOf(response))
  THEN [ err |-> FALSE,
         ControlPlane |-> ListIn(SpanOf(response), "control_plane"),
         DataPlane |-> ListIn(SpanOf(response), "data_plane") ]
  ELSE [ err |-> TRUE, ControlPlane |-> << >>, DataPlane |-> << >> ]

\* C19: for every reply the oracle gave, parseClassificationResponse fails
\* when the reply has no '{', no '}' after its first '{', or when the span
\* from the first '{' to the last '}' is not one object, and otherwise
\* returns the two lists of that object; the result is that of parsing the
\* span alone.  The results recorded by classifyInBatches are these.
C19_ParsesTheBraceSpan ==
  \A k \in DOMAIN oracleReplies :
    ~oracleReplies[k].err =>
      LET response == oracleReplies[k].response
      IN  /\ parseClassificationResponse(response) = Parsed(response)
          /\ HasSpan(response) =>
               parseClassificationResponse(SpanOf(response)) = Parsed(response)
          /\ IF Parsed(response).err
             THEN k = Len(oracleReplies) /\ BatchFailed /\ classification.err
             ELSE k <= Len(batchResults) /\ batchResults[k] = Parsed(response)

\* C19 witness: the first reply, an object between text, was parsed into
\* its two lists, and the second, holding two objects, was refused
C19_Witness ==
  /\ Len(oracleReplies) = 2
  /\ ~oracleReplies[1].err
  /\ oracleReplies[1].response =
       << Text, OpenBrace, Member("control_plane", << oracleCalls[1][1] >>),
          Member("data_plane", << oracleCalls[1][Len(oracleCalls[1])] >>),
          CloseBrace, Text >>
  /\ batchResults = << [ err |-> FALSE,
                         ControlPlane |-> << oracleCalls[1][1] >>,
                         DataPlane |-> << oracleCalls[1][Len(oracleCalls[1])] >> ] >>
  /\ ~oracleReplies[2].err
  /\ Cardinality(Opens(oracleReplies[2].response)) = 2
  /\ classification.err

\* the numbers of the lines of a file that match a pattern for the name
MatchingLines(lines, name) ==
  { j \in DOMAIN lines :
      \E k \in DOMAIN Patterns : MatchString(Patterns[k], name, lines[j]) }

\* the entries of a walk that are Go files that can be opened and contain a
\* line matching a pattern for the name
MatchingFiles(walk, name) ==
  { k \in DOMAIN walk :
      /\ walk[k].kind = "file"
      /\ HasGoSuffix(walk[k].rel)
      /\ MatchingLines(walk[k].lines, name) # {} }

\* the first matching line of the first matching file of the walk of the
\* service, not found when there is none or the traversal fails before it
FirstMatch(s, name) ==
  LET walk  == fs[s].controller.walk
      files == MatchingFiles(walk, name)
      first == Least(files)
  IN  IF files = {} \/ \E k \in DOMAIN walk : walk[k].kind = "walkerr" /\ k < first
      THEN << << >>, 0 >>
      ELSE << walk[first].rel, Least(MatchingLines(walk[first].lines, name)) >>

\* the operations collected so far, with and without a source location
Collected == operations \o unsupportedOperations

\* C20: for a service with a pkg directory, findOperationInController
\* returns the first matching line (numbered from 1) of the first file, in
\* traversal order, that contains a matching line, with its path relative to
\* the controller root; files that cannot be opened are skipped and a
\* traversal error gives "not found".  Every collected operation carries
\* that location.
C20_FirstMatchInTraversalOrder ==
  attempted # << >> /\ ~NoSourceTree(CurService) =>
    /\ \A n \in { nF, nB, nG } :
         findOperationInController(CurService, n) = FirstMatch(CurService, n)
    /\ \A k \in DOMAIN Collected :
         << Collected[k].File, Collected[k].Line >> =
           FirstMatch(CurService, Collected[k].Name)

\* C20 witness: pkg/a.go holds a call of F after a line the scanner cannot
\* hold, pkg/b.go calls F on its second line, and F was collected
C20_Witness ==
  /\ attempted # << >>
  /\ fs[CurService].controller.walk =
       << PkgDir,
          Entry("file", << "pkg", "/", "a", ".go" >>,
                << LongLine("none", nF), Line("client", nF) >>),
          Entry("file", << "pkg", "/", "b", ".go" >>,
                << Line("none", nF), Line("client", nF) >>) >>
  /\ \E k \in DOMAIN Collected : Collected[k].Name = nF

\* the lines of a file that come before the first line the scanner cannot
\* hold
LinesRead(lines) ==
  LET stops == { j \in DOMAIN lines : ScanStops(lines[j]) }
  IN  IF stops = {} THEN lines ELSE SubSeq(lines, 1, Least(stops) - 1)

\* the walk of the service with every file cut at the first line the
\* scanner cannot hold
FirstMatchRead(s, name) ==
  LET walk  == [ k \in DOMAIN fs[s].controller.walk |->
                   [ fs[s].controller.walk[k] EXCEPT !.lines = LinesRead(@) ] ]
      files == MatchingFiles(walk, name)
      first == Least(files)
  IN  IF files = {} \/ \E k \in DOMAIN walk : walk[k].kind = "walkerr" /\ k < first
      THEN << << >>, 0 >>
      ELSE << walk[first].rel, Least(MatchingLines(walk[first].lines, name)) >>

\* C20, for the lines the scanner reads: the statement of C20 holds of the
\* lines of each file that come before its first line of MaxScanTokenSize
\* bytes or more; a file is left at such a line as if it ended there.
C20_FirstMatchAmongLinesRead ==
  attempted # << >> /\ ~NoSourceTree(CurService) =>
    /\ \A n \in { nF, nB, nG } :
         findOperationInController(CurService, n) = FirstMatchRead(CurService, n)
    /\ \A k \in DOMAIN Collected :
         << Collected[k].File, Collected[k].Line >> =
           FirstMatchRead(CurService, Collected[k].Name)

\* a walk without a line the scanner cannot hold
AllLinesRead(s) ==
  \A k \in DOMAIN fs[s].controller.walk :
    LinesRead(fs[s].controller.walk[k].lines) = fs[s].controller.walk[k].lines

\* C20, where every line fits the scanner: the statement of C20 as written
C20_FirstMatchWhenLinesFit ==
  attempted # << >> /\ ~NoSourceTree(CurService) /\ AllLinesRead(CurService) =>
    \A n \in { nF, nB, nG } :
      findOperationInController(CurService, n) = FirstMatch(CurService, n)

\* the entries of ops of type control_plane
ControlPlaneIn(ops) == { k \in DOMAIN ops : ops[k].Type = "control_plane" }

\* C21: in every returned ServiceOperations, SupportedControlPlaneOps equals
\* SupportedOperations and ControlPlaneOps is at least SupportedOperations:
\* the entries with a source location and type control_plane are the
\* entries with a source location, and a type other than control_plane is
\* only found on an entry without a source location.
C21_SupportedAreControlPlane ==
  serviceOps.valid =>
    /\ serviceOps.SupportedControlPlaneOps = serviceOps.SupportedOperations
    /\ serviceOps.ControlPlaneOps >= serviceOps.SupportedOperations
    /\ Located(RetOps) \cap ControlPlaneIn(RetOps) = Located(RetOps)
    /\ \A k \in DOMAIN RetOps \ ControlPlaneIn(RetOps) : ~HasLocation(RetOps[k])

\* C21 witness: an implemented operation, an operation the oracle named
\* control plane and one it named data plane are returned together
C21_Witness ==
  /\ serviceOps.valid
  /\ oracleCalls # << >>
  /\ ~classification.err
  /\ serviceOps.SupportedOperations >= 1
  /\ serviceOps.ControlPlaneOps > serviceOps.SupportedOperations
  /\ \E k \in DOMAIN RetOps : RetOps[k].Type = "data_plane"

\* the names of the entries of ops with a source location
LocatedNames(ops) == { ops[k].Name : k \in Located(ops) }

\* C22: in every returned Operations list the entries with a source
\* location come before those without one: the list is the implemented
\* operations in the order the scanner was called for them, followed by the
\* unimplemented ones in that order; every entry has a non-empty File and
\* Line >= 1, or an empty File and Line = 0, as the scanner returned them.
C22_ImplementedFirst ==
  serviceOps.valid =>
    /\ \A i, j \in DOMAIN RetOps :
         HasLocation(RetOps[i]) /\ ~HasLocation(RetOps[j]) => i < j
    /\ NamesOf(RetOps) =
         SelectSeqBy(scanCalls, LocatedNames(RetOps))
           \o SelectSeqBy(scanCalls, Range(scanCalls) \ LocatedNames(RetOps))
    /\ \A k \in DOMAIN RetOps :
         /\ \/ RetOps[k].File # << >> /\ RetOps[k].Line >= 1
            \/ RetOps[k].File = << >> /\ RetOps[k].Line = 0
         /\ << RetOps[k].File, RetOps[k].Line >> =
              findOperationInController(CurService, RetOps[k].Name)

\* C22 witness: the scanner was called for F, B and G in this order and
\* found only B, on the first line of the second file; B is returned first
C22_Witness ==
  /\ serviceOps.valid
  /\ scanCalls = << nF, nB, nG >>
  /\ NamesOf(RetOps) = << nB, nF, nG >>
  /\ RetOps[1].File = << "pkg", "/", "b", ".go" >>
  /\ RetOps[1].Line = 1
  /\ RetOps[2].File = << >> /\ RetOps[2].Line = 0

\* the oracle has named the operation control plane, data plane, in a reply
\* of some batch
NamedControlPlane(name) ==
  \E i \in DOMAIN batchResults : name \in Range(batchResults[i].ControlPlane)

NamedDataPlane(name) ==
  \E i \in DOMAIN batchResults : name \in Range(batchResults[i].DataPlane)

\* C23: the step that applies a classification leaves the number, the
\* order, the Name, the File and the Line of the operations as they were
\* and changes only the Type: to control_plane for an operation named in a
\* control-plane list of some batch, also when a data-plane list of that or
\* of another batch names it too, and to data_plane for every other one.
C23_OnlyTypeChanges ==
  [][ pc = "classified" /\ ~classification.err =>
        /\ Len(unsupportedOperations') = Len(unsupportedOperations)
        /\ operations' = operations \o unsupportedOperations'
        /\ \A k \in DOMAIN unsupportedOperations :
             LET old == unsupportedOperations[k]
                 new == unsupportedOperations'[k]
             IN  /\ new.Name = old.Name
                 /\ new.File = old.File
                 /\ new.Line = old.Line
                 /\ new.Type = IF NamedControlPlane(old.Name)
                               THEN "control_plane" ELSE "data_plane" ]_vars

\* C23 witness: the first operation was named control plane by the reply
\* for the first batch and data plane by the reply for the second, and is
\* control plane in the joined list, which also holds a data-plane operation
C23_Witness ==
  /\ pc = "joined"
  /\ ~classification.err
  /\ Len(batchResults) = 2
  /\ Len(operations) > maxOperationsPerBatch
  /\ operations[1].Name \in Range(batchResults[1].ControlPlane)
  /\ operations[1].Name \in Range(batchResults[2].DataPlane)
  /\ operations[1].Name \notin Range(batchResults[1].DataPlane)
  /\ operations[1].Type = "control_plane"
  /\ \E k \in DOMAIN operations : operations[k].Type = "data_plane"

=============================================================================
